---------------------------- MODULE Spec2Model ----------------------------
(***************************************************************************)
(* The Watcher of apisix-seed (internal/core/components/watcher.go):       *)
(* reconciliation (Init), one watch loop per store (Watch / handleWatch),  *)
(* change classification (handleValue), dispatch to the discovery          *)
(* backends and shutdown (Close).                                          *)
(*                                                                         *)
(* Every goroutine is a process of the model.  A goroutine that has run    *)
(* its deferred function is gone: it is removed from the set of tasks.     *)
(***************************************************************************)
EXTENDS Naturals, Sequences, FiniteSets, Bags

VARIABLES
    pcMain,     \* position of the goroutine that calls Init, Watch and Close
    mainIdx,    \* index of that goroutine's range over GetStores()
    objPtrs,    \* Init: the listed objects still to be handed to a task
    initWg,     \* Init: the WaitGroup counter of each store's batch
    qtasks,     \* the live handleQuery goroutines
    sem,        \* number of permits held in w.sem
    ctxDone,    \* w.ctx is cancelled
    subscribed, \* the store's feed subscription is open
    unwatched,  \* number of Unwatch calls on each store
    loopPc,     \* position of each store's handleWatch goroutine
    values,     \* the decoded values of the batch a loop is processing
    vi,         \* index of the next value the loop hands to a task
    nbatch,     \* number of batches a loop has decoded
    wg,         \* the WaitGroup counter of each batch of each loop
    vtasks,     \* the live handleValue goroutines of each store
    feed,       \* the batches pending on each store's change feed
    delivered,  \* number of batches the feeds have delivered
    cache,      \* the snapshot cache of each store
    queries,    \* bag of the Query invocations: backend, event, entity
    feedView    \* what the records decoded so far say each key holds

vars == <<pcMain, mainIdx, objPtrs, initWg, qtasks, sem, ctxDone, subscribed,
          unwatched, loopPc, values, vi, nbatch, wg, vtasks, feed, delivered,
          cache, queries, feedView>>

(***************************************************************************)
(* Bounds of the model.                                                    *)
(***************************************************************************)
\* capacity of w.sem; the program uses runtime.GOMAXPROCS(0)+10, the model a
\* capacity small enough for the spawning paths to block on it
SemCap == 2
\* change batches the feeds deliver in one behaviour, all stores together
MaxBatches == 2

(***************************************************************************)
(* Values.                                                                 *)
(***************************************************************************)
\* nil: no object, no message
None == [nil |-> TRUE]
EventAdd == "add"
EventDelete == "delete"
EventUpdate == "update"

\* storer.GetStores(): the configured stores, in the order Init, Watch and
\* Close range over them; a store is named by its Typ
GetStores == <<"routes", "upstreams">>
Stores == {GetStores[i] : i \in 1..Len(GetStores)}

Keys == {"k1", "k2", "k3", "k4"}
NoService == ""
BadArgs == "bad"

\* raw values of the change feed and of the listing
Raw(service, dtype, args) == [service |-> service, dtype |-> dtype, args |-> args]
rawA1 == Raw("svcA", "dns", "a1")
rawA2 == Raw("svcA", "dns", "a2")
rawB == Raw("svcB", "nacos", "a1")
rawBad == Raw("svcA", "dns", BadArgs)
rawNS == Raw(NoService, "dns", "a1")
\* a raw value that does not deserialize
rawGarbage == [garbage |-> TRUE]
RawVals == {rawA1, rawA2, rawB, rawBad, rawNS, rawGarbage}

\* s.StringToObjPtr(rawValue, key): deserializes a raw value into the object
\* of the store's entity kind; the key becomes the object's id
StringToObjPtr(raw, key) ==
    IF raw = rawGarbage
    THEN [err |-> TRUE, obj |-> None]
    ELSE [err |-> FALSE,
          obj |-> [id |-> key, service |-> raw.service,
                   dtype |-> raw.dtype, args |-> raw.args]]

\* entity.ServiceFilter: the object references a discoverable service
ServiceFilter(obj) == obj.service # NoService

\* queer.Extract() and queer.GetType()
Extract(queer) == <<queer.id, queer.service, queer.args>>
GetType(queer) == queer.dtype

\* entity.ServiceUpdate: same target, service arguments changed
ServiceUpdate(old, new) ==
    /\ old.service = new.service
    /\ old.dtype = new.dtype
    /\ old.args # new.args

\* entity.ServiceReplace: the discovery target itself changed
ServiceReplace(old, new) ==
    \/ old.service # new.service
    \/ old.dtype # new.dtype

\* discoverer.EncodeEntityID(typ, id)
EncodeEntityID(typ, id) == <<typ, id>>

\* comm.NewQuery / comm.NewUpdate: fail only on malformed argument payloads
NewQuery(headerVals, args) ==
    IF args = BadArgs
    THEN [err |-> TRUE, msg |-> None]
    ELSE [err |-> FALSE,
          msg |-> [event |-> headerVals[1], entity |-> headerVals[2],
                   service |-> headerVals[3], args |-> args]]

NewUpdate(headerVals, args, newArgs) ==
    IF args = BadArgs \/ newArgs = BadArgs
    THEN [err |-> TRUE, msg |-> None]
    ELSE [err |-> FALSE,
          msg |-> [event |-> headerVals[1], service |-> headerVals[2],
                   args |-> args, newArgs |-> newArgs]]

\* encodeQuery(event, typ, queer), lines 178-189
encodeQuery(event, typ, queer) ==
    LET ex == Extract(queer)
        entityID == EncodeEntityID(typ, ex[1])
    IN  NewQuery(<<event, entityID, ex[2]>>, ex[3])

\* encodeUpdate(oldQueer, newQueer), lines 191-202
encodeUpdate(oldQueer, newQueer) ==
    LET ex == Extract(oldQueer)
        nx == Extract(newQueer)
    IN  NewUpdate(<<EventUpdate, ex[2]>>, ex[3], nx[3])

\* one backend invocation: discoverer.GetDiscoverer(dtype).Query(msg) or
\* .Update(msg)
QueryOp(dtype, msg) == [backend |-> dtype, op |-> "Query", msg |-> msg]
UpdateOp(dtype, msg) == [backend |-> dtype, op |-> "Update", msg |-> msg]

\* s.Store(key, obj): atomic upsert into the snapshot cache, returning the
\* previous object and whether one existed
Store(c, key, obj) ==
    [cache |-> [c EXCEPT ![key] = obj], old |-> c[key], ok |-> c[key] # None]

\* s.Delete(key): atomic removal, returning the removed object and whether
\* one existed
Delete(c, key) ==
    [cache |-> [c EXCEPT ![key] = None], old |-> c[key], ok |-> c[key] # None]


\* s.List(entity.ServiceFilter): deserializes every resident entry and keeps
\* the ones the filter accepts; an entry that does not deserialize fails it
List(entries) ==
    LET objs == [i \in 1..Len(entries) |->
                    StringToObjPtr(entries[i][2], entries[i][1])]
        Keep(d) == ServiceFilter(d.obj)
    IN  IF \E i \in 1..Len(entries) : objs[i].err
        THEN [err |-> TRUE, objs |-> <<>>]
        ELSE LET kept == SelectSeq(objs, Keep)
             IN  [err |-> FALSE, objs |-> [i \in 1..Len(kept) |-> kept[i].obj]]

\* watch.Decode(): the (event kind, key, raw value) triples of a change batch
Decode(watch) ==
    IF watch.bad
    THEN [err |-> TRUE, values |-> <<>>]
    ELSE [err |-> FALSE, values |-> watch.values]

(***************************************************************************)
(* handleValue, lines 111-175, up to its backend calls: what one record    *)
(* does to the snapshot cache c of a store of type typ, and the backend    *)
(* invocations it goes on to make, in order.                               *)
(***************************************************************************)
Outcome(class, c, old, ok, pend) ==
    [class |-> class, cache |-> c, old |-> old, ok |-> ok, pend |-> pend]

\* lines 128-133: a new entity
newOps(typ, queer) ==
    LET query == encodeQuery(EventAdd, typ, queer)
    IN  IF query.err THEN [err |-> TRUE, ops |-> <<>>]
        ELSE [err |-> FALSE, ops |-> <<QueryOp(GetType(queer), query.msg)>>]

\* lines 137-142: the service information of an existing entity is updated
updateOps(oldQueer, queer) ==
    LET update == encodeUpdate(oldQueer, queer)
    IN  IF update.err THEN [err |-> TRUE, ops |-> <<>>]
        ELSE [err |-> FALSE, ops |-> <<UpdateOp(GetType(queer), update.msg)>>]

\* replaceOps with the delete-Query built from the new object instead of the
\* old one
replaceOpsFromNew(typ, oldQueer, queer) ==
    LET del == encodeQuery(EventDelete, typ, queer)
        add == encodeQuery(EventAdd, typ, queer)
    IN  IF del.err \/ add.err THEN [err |-> TRUE, ops |-> <<>>]
        ELSE [err |-> FALSE,
              ops |-> <<QueryOp(GetType(queer), del.msg),
                        QueryOp(GetType(queer), add.msg)>>]

\* replaceOps with the two backend calls in the other order
replaceOpsAddFirst(typ, oldQueer, queer) ==
    LET del == encodeQuery(EventDelete, typ, oldQueer)
        add == encodeQuery(EventAdd, typ, queer)
    IN  IF del.err \/ add.err THEN [err |-> TRUE, ops |-> <<>>]
        ELSE [err |-> FALSE,
              ops |-> <<QueryOp(GetType(queer), add.msg),
                        QueryOp(GetType(oldQueer), del.msg)>>]

\* replaceOps encoding the add-Query only after the delete-Query has been
\* queued for dispatch
replaceOpsEncodeLate(typ, oldQueer, queer) ==
    LET del == encodeQuery(EventDelete, typ, oldQueer)
        add == encodeQuery(EventAdd, typ, queer)
    IN  IF del.err THEN [err |-> TRUE, ops |-> <<>>]
        ELSE IF add.err
        THEN [err |-> TRUE, ops |-> <<QueryOp(GetType(oldQueer), del.msg)>>]
        ELSE [err |-> FALSE,
              ops |-> <<QueryOp(GetType(oldQueer), del.msg),
                        QueryOp(GetType(queer), add.msg)>>]

\* lines 146-159: the service information of an existing entity is replaced
replaceOps(typ, oldQueer, queer) ==
    LET del == encodeQuery(EventDelete, typ, oldQueer)
        add == encodeQuery(EventAdd, typ, queer)
    IN  IF del.err \/ add.err THEN [err |-> TRUE, ops |-> <<>>]
        ELSE [err |-> FALSE,
              ops |-> <<QueryOp(GetType(oldQueer), del.msg),
                        QueryOp(GetType(queer), add.msg)>>]

\* lines 167-173: an existing entity is deleted
deleteOps(typ, queer) ==
    LET query == encodeQuery(EventDelete, typ, queer)
    IN  IF query.err THEN [err |-> TRUE, ops |-> <<>>]
        ELSE [err |-> FALSE, ops |-> <<QueryOp(GetType(queer), query.msg)>>]

Encoded(class, st, enc) ==
    Outcome(IF enc.err THEN "encodeError" ELSE class,
            st.cache, st.old, st.ok, enc.ops)

\* handleAdd without the service filter of lines 118-120
handleAddNoFilter(val, typ, c) ==
    LET d == StringToObjPtr(val[3], val[2])
    IN  IF d.err THEN Outcome("decodeError", c, None, FALSE, <<>>)
        ELSE
          LET queer == d.obj
              st == Store(c, val[2], queer)
          IN  IF ~st.ok
              THEN Encoded("new", st, newOps(typ, queer))
              ELSE IF ServiceUpdate(st.old, queer)
              THEN Encoded("update", st, updateOps(st.old, queer))
              ELSE IF ServiceReplace(st.old, queer)
              THEN Encoded("replace", st, replaceOps(typ, st.old, queer))
              ELSE Outcome("unchanged", st.cache, st.old, st.ok, <<>>)

\* lines 112-160
handleAdd(val, typ, c) ==
    LET d == StringToObjPtr(val[3], val[2])
    IN  IF d.err THEN Outcome("decodeError", c, None, FALSE, <<>>)
        ELSE IF ~ServiceFilter(d.obj) THEN Outcome("noService", c, None, FALSE, <<>>)
        ELSE
          LET queer == d.obj
              st == Store(c, val[2], queer)
          IN  IF ~st.ok
              THEN Encoded("new", st, newOps(typ, queer))
              ELSE IF ServiceUpdate(st.old, queer)
              THEN Encoded("update", st, updateOps(st.old, queer))
              ELSE IF ServiceReplace(st.old, queer)
              THEN Encoded("replace", st, replaceOps(typ, st.old, queer))
              ELSE Outcome("unchanged", st.cache, st.old, st.ok, <<>>)

\* lines 161-174
handleDelete(val, typ, c) ==
    LET st == Delete(c, val[2])
    IN  IF st.ok
        THEN Encoded("delete", st, deleteOps(typ, st.old))
        ELSE Outcome("absent", st.cache, st.old, st.ok, <<>>)

\* handleValue reading the previous object without storing the new one
handleValueNoSwap(val, typ, c) ==
    IF val[1] = EventAdd THEN [handleAdd(val, typ, c) EXCEPT !.cache = c]
    ELSE IF val[1] = EventDelete THEN handleDelete(val, typ, c)
    ELSE Outcome("otherEvent", c, None, FALSE, <<>>)

\* handleValue reading the cached object of a deleted key without removing it
handleValueNoTake(val, typ, c) ==
    IF val[1] = EventAdd THEN handleAdd(val, typ, c)
    ELSE IF val[1] = EventDelete
    THEN [handleDelete(val, typ, c) EXCEPT !.cache = c]
    ELSE Outcome("otherEvent", c, None, FALSE, <<>>)

\* handleValue encoding before it touches the cache: a record whose message
\* does not encode leaves the cache as it was
handleValueRollback(val, typ, c) ==
    LET r == IF val[1] = EventAdd THEN handleAdd(val, typ, c)
             ELSE IF val[1] = EventDelete THEN handleDelete(val, typ, c)
             ELSE Outcome("otherEvent", c, None, FALSE, <<>>)
    IN  IF r.class = "encodeError" THEN [r EXCEPT !.cache = c] ELSE r

\* lines 111-175
handleValue(val, typ, c) ==
    IF val[1] = EventAdd THEN handleAdd(val, typ, c)
    ELSE IF val[1] = EventDelete THEN handleDelete(val, typ, c)
    ELSE Outcome("otherEvent", c, None, FALSE, <<>>)

\* handleQuery, lines 68-76, up to its backend call
handleQuery(objPtr, typ) ==
    LET queer == objPtr
        query == encodeQuery(EventAdd, typ, queer)
    IN  IF query.err THEN <<>> ELSE <<QueryOp(GetType(queer), query.msg)>>


(***************************************************************************)
(* Inputs: what the stores list at startup and what their feeds deliver.   *)
(***************************************************************************)
DTypes == {"dns", "nacos"}
EntityIDs == {EncodeEntityID(s, k) : s \in Stores, k \in Keys}
\* number of Query invocations with this event for this entity on a backend
Queries(dtype, event, entity) == CopiesIn(<<dtype, event, entity>>, queries)

Batch(vals) == [bad |-> FALSE, values |-> vals]
BadBatch == [bad |-> TRUE, values |-> <<>>]

\* the record sequence of the feed, key by key: a record touches the cache
\* when it is a delete or an add of a service-bearing object
Racy == [racy |-> TRUE]
Touches(val) ==
    \/ val[1] = EventDelete
    \/ /\ val[1] = EventAdd
       /\ ~StringToObjPtr(val[3], val[2]).err
       /\ ServiceFilter(StringToObjPtr(val[3], val[2]).obj)
Touching(vals, k) == {i \in DOMAIN vals : vals[i][2] = k /\ Touches(vals[i])}
ViewAfter(view, vals) ==
    [k \in Keys |->
        LET T == Touching(vals, k)
        IN  IF T = {} THEN view[k]
            ELSE IF Cardinality(T) > 1 THEN Racy
            ELSE LET v == vals[CHOOSE i \in T : TRUE]
                 IN  IF v[1] = EventDelete THEN None
                     ELSE StringToObjPtr(v[3], v[2]).obj]

(***************************************************************************)
(* State after construction of the Watcher.                                *)
(***************************************************************************)
Init ==
    /\ pcMain = "Start"
    /\ mainIdx = 1
    /\ objPtrs = <<>>
    /\ initWg = [s \in Stores |-> 0]
    /\ qtasks = {}
    /\ sem = 0
    /\ ctxDone = FALSE
    /\ subscribed = [s \in Stores |-> FALSE]
    /\ unwatched = [s \in Stores |-> 0]
    /\ loopPc = [s \in Stores |-> "none"]
    /\ values = [s \in Stores |-> <<>>]
    /\ vi = [s \in Stores |-> 1]
    /\ nbatch = [s \in Stores |-> 0]
    /\ wg = [s \in Stores |-> [b \in 1..MaxBatches |-> 0]]
    /\ vtasks = [s \in Stores |-> {}]
    /\ feed = [s \in Stores |-> <<>>]
    /\ delivered = 0
    /\ cache = [s \in Stores |-> [k \in Keys |-> None]]
    /\ queries = EmptyBag
    /\ feedView = [s \in Stores |-> [k \in Keys |-> None]]

mainVars == <<pcMain, mainIdx, objPtrs>>
loopVars == <<loopPc, values, vi, nbatch>>
feedVars == <<feed, delivered, subscribed, unwatched>>

\* the effect of one backend invocation on the backends
Invoke(op) ==
    IF op.op = "Query"
    THEN queries' = queries (+)
                        SetToBag({<<op.backend, op.msg.event, op.msg.entity>>})
    ELSE UNCHANGED queries

(***************************************************************************)
(* Init, lines 24-43.                                                      *)
(***************************************************************************)
\* line 26
InitMake ==
    /\ pcMain = "Start"
    /\ sem' = 0
    /\ pcMain' = "Init"
    /\ UNCHANGED <<mainIdx, objPtrs, initWg, qtasks, ctxDone, loopVars, wg,
                   vtasks, feedVars, cache, queries, feedView>>

\* InitList going on after a failed listing, with nothing to reconcile for
\* the store
InitListNoPanic(entries) ==
    /\ pcMain = "Init"
    /\ LET s == GetStores[mainIdx]
           res == List(entries)
       IN  /\ pcMain' = "InitSpawn"
           /\ objPtrs' = res.objs
           /\ initWg' = [initWg EXCEPT ![s] = Len(res.objs)]
    /\ UNCHANGED <<mainIdx, qtasks, sem, ctxDone, loopVars, wg, vtasks,
                   feedVars, cache, queries, feedView>>

\* lines 29-36: s.List succeeds or Init panics
InitList(entries) ==
    /\ pcMain = "Init"
    /\ LET s == GetStores[mainIdx]
           res == List(entries)
       IN  IF res.err
           THEN /\ pcMain' = "Panic"
                /\ UNCHANGED <<objPtrs, initWg>>
           ELSE /\ pcMain' = "InitSpawn"
                /\ objPtrs' = res.objs
                /\ initWg' = [initWg EXCEPT ![s] = Len(res.objs)]
    /\ UNCHANGED <<mainIdx, qtasks, sem, ctxDone, loopVars, wg, vtasks,
                   feedVars, cache, queries, feedView>>

\* lines 37-40: acquire a permit, start handleQuery
InitSpawn ==
    /\ pcMain = "InitSpawn"
    /\ objPtrs # <<>>
    /\ sem < SemCap
    /\ sem' = sem + 1
    /\ qtasks' = qtasks \cup {[store |-> GetStores[mainIdx], obj |-> Head(objPtrs),
                               pc |-> "start", pend |-> <<>>, sent |-> <<>>,
                               failed |-> FALSE]}
    /\ objPtrs' = Tail(objPtrs)
    /\ UNCHANGED <<pcMain, mainIdx, initWg, ctxDone, loopVars, wg, vtasks,
                   feedVars, cache, queries, feedView>>

\* InitWait without the join: Init goes on as soon as the tasks are started
InitNoWait ==
    /\ pcMain = "InitSpawn"
    /\ objPtrs = <<>>
    /\ IF mainIdx < Len(GetStores)
       THEN /\ mainIdx' = mainIdx + 1
            /\ pcMain' = "Init"
       ELSE /\ mainIdx' = 1
            /\ pcMain' = "Watch"
    /\ UNCHANGED <<objPtrs, initWg, qtasks, sem, ctxDone, loopVars, wg, vtasks,
                   feedVars, cache, queries, feedView>>

\* line 41: wg.Wait(), then the next store or the return of Init
InitWait ==
    /\ pcMain = "InitSpawn"
    /\ objPtrs = <<>>
    /\ initWg[GetStores[mainIdx]] = 0
    /\ IF mainIdx < Len(GetStores)
       THEN /\ mainIdx' = mainIdx + 1
            /\ pcMain' = "Init"
       ELSE /\ mainIdx' = 1
            /\ pcMain' = "Watch"
    /\ UNCHANGED <<objPtrs, initWg, qtasks, sem, ctxDone, loopVars, wg, vtasks,
                   feedVars, cache, queries, feedView>>

(***************************************************************************)
(* handleQuery, lines 62-77.                                               *)
(***************************************************************************)
SetTask(set, t, u) == (set \ {t}) \cup {u}

\* lines 68-73
HQEncode(t) ==
    /\ t \in qtasks
    /\ t.pc = "start"
    /\ LET pend == handleQuery(t.obj, t.store)
       IN  qtasks' = SetTask(qtasks, t,
               [t EXCEPT !.pend = pend,
                         !.pc = IF pend = <<>> THEN "defer" ELSE "call"])
    /\ UNCHANGED <<mainVars, initWg, sem, ctxDone, loopVars, wg, vtasks,
                   feedVars, cache, queries, feedView>>

\* line 76: the backend call returns, its error is discarded; failed
\* remembers it until the task's deferred function runs
HQCall(t, err) ==
    /\ t \in qtasks
    /\ t.pc = "call"
    /\ Invoke(Head(t.pend))
    /\ qtasks' = SetTask(qtasks, t,
           [t EXCEPT !.sent = Append(@, Head(t.pend)),
                     !.pend = Tail(@),
                     !.failed = @ \/ err,
                     !.pc = IF Tail(t.pend) = <<>> THEN "defer" ELSE "call"])
    /\ UNCHANGED <<mainVars, initWg, sem, ctxDone, loopVars, wg, vtasks,
                   feedVars, cache, feedView>>

\* line 64
HQRelease(t) ==
    /\ t \in qtasks
    /\ t.pc = "defer"
    /\ sem > 0
    /\ sem' = sem - 1
    /\ qtasks' = SetTask(qtasks, t,
           [t EXCEPT !.pc = "done", !.failed = FALSE])
    /\ UNCHANGED <<mainVars, initWg, ctxDone, loopVars, wg, vtasks, feedVars,
                   cache, queries, feedView>>

\* line 65
HQDone(t) ==
    /\ t \in qtasks
    /\ t.pc = "done"
    /\ initWg[t.store] > 0
    /\ initWg' = [initWg EXCEPT ![t.store] = @ - 1]
    /\ qtasks' = qtasks \ {t}
    /\ UNCHANGED <<mainVars, sem, ctxDone, loopVars, wg, vtasks, feedVars,
                   cache, queries, feedView>>


(***************************************************************************)
(* Watch, lines 45-52, and Close, lines 54-60.                             *)
(***************************************************************************)
Watch ==
    /\ pcMain = "Watch"
    /\ ctxDone' = FALSE
    /\ loopPc' = [s \in Stores |-> "start"]
    /\ pcMain' = "Serve"
    /\ UNCHANGED <<mainIdx, objPtrs, initWg, qtasks, sem, values, vi, nbatch,
                   wg, vtasks, feedVars, cache, queries, feedView>>

\* line 55: w.cancel()
CloseCancel ==
    /\ pcMain = "Serve"
    /\ ctxDone' = TRUE
    /\ pcMain' = "Close"
    /\ mainIdx' = 1
    /\ UNCHANGED <<objPtrs, initWg, qtasks, sem, loopVars, wg, vtasks,
                   feedVars, cache, queries, feedView>>

\* lines 57-59: s.Unwatch() on the next store
CloseUnwatch ==
    /\ pcMain = "Close"
    /\ LET s == GetStores[mainIdx]
       IN  /\ subscribed' = [subscribed EXCEPT ![s] = FALSE]
           /\ unwatched' = [unwatched EXCEPT ![s] = @ + 1]
    /\ IF mainIdx < Len(GetStores)
       THEN /\ mainIdx' = mainIdx + 1
            /\ pcMain' = "Close"
       ELSE /\ mainIdx' = 1
            /\ pcMain' = "Closed"
    /\ UNCHANGED <<objPtrs, initWg, qtasks, sem, ctxDone, loopVars, wg, vtasks,
                   feed, delivered, cache, queries, feedView>>

(***************************************************************************)
(* The change feed of a store: a batch becomes available on the channel    *)
(* s.Watch() returned, while the subscription is open.                     *)
(***************************************************************************)
Deliver(s, watch) ==
    /\ subscribed[s]
    /\ delivered < MaxBatches
    /\ feed[s] = <<>>
    /\ feed' = [feed EXCEPT ![s] = <<watch>>]
    /\ delivered' = delivered + 1
    /\ UNCHANGED <<mainVars, initWg, qtasks, sem, ctxDone, subscribed,
                   unwatched, loopVars, wg, vtasks, cache, queries, feedView>>

(***************************************************************************)
(* handleWatch, lines 79-102.                                              *)
(***************************************************************************)
\* line 80: ch := s.Watch()
LoopStart(s) ==
    /\ loopPc[s] = "start"
    /\ subscribed' = [subscribed EXCEPT ![s] = TRUE]
    /\ loopPc' = [loopPc EXCEPT ![s] = "select"]
    /\ UNCHANGED <<mainVars, initWg, qtasks, sem, ctxDone, values, vi, nbatch,
                   wg, vtasks, feed, delivered, unwatched, cache, queries,
                   feedView>>

\* LoopCancel with a continue for the return: the loop goes back to its
\* select
LoopCancelContinue(s) ==
    /\ loopPc[s] = "select"
    /\ ctxDone
    /\ loopPc' = [loopPc EXCEPT ![s] = "select"]
    /\ UNCHANGED <<mainVars, initWg, qtasks, sem, ctxDone, values, vi, nbatch,
                   wg, vtasks, feedVars, cache, queries, feedView>>

\* lines 84-85: the select takes the cancellation case
LoopCancel(s) ==
    /\ loopPc[s] = "select"
    /\ ctxDone
    /\ loopPc' = [loopPc EXCEPT ![s] = "exit"]
    /\ UNCHANGED <<mainVars, initWg, qtasks, sem, ctxDone, values, vi, nbatch,
                   wg, vtasks, feedVars, cache, queries, feedView>>

\* LoopRecv without the continue: a batch whose decoding failed is handled
\* like a decoded one
LoopRecvNoContinue(s) ==
    /\ loopPc[s] = "select"
    /\ feed[s] # <<>>
    /\ feed' = [feed EXCEPT ![s] = Tail(@)]
    /\ LET d == Decode(Head(feed[s]))
       IN  /\ nbatch' = [nbatch EXCEPT ![s] = @ + 1]
           /\ values' = [values EXCEPT ![s] = d.values]
           /\ vi' = [vi EXCEPT ![s] = 1]
           /\ wg' = [wg EXCEPT ![s][nbatch[s] + 1] = Len(d.values)]
           /\ loopPc' = [loopPc EXCEPT ![s] = "batch"]
    /\ UNCHANGED <<mainVars, initWg, qtasks, sem, ctxDone, vtasks, delivered,
                   subscribed, unwatched, cache, queries, feedView>>

\* lines 86-94: the select takes the receive case; a select with several
\* ready cases takes any of them
LoopRecv(s) ==
    /\ loopPc[s] = "select"
    /\ feed[s] # <<>>
    /\ feed' = [feed EXCEPT ![s] = Tail(@)]
    /\ LET d == Decode(Head(feed[s]))
       IN  IF d.err
           THEN UNCHANGED <<loopVars, wg>>
           ELSE /\ nbatch' = [nbatch EXCEPT ![s] = @ + 1]
                /\ values' = [values EXCEPT ![s] = d.values]
                /\ vi' = [vi EXCEPT ![s] = 1]
                /\ wg' = [wg EXCEPT ![s][nbatch[s] + 1] = Len(d.values)]
                /\ loopPc' = [loopPc EXCEPT ![s] = "batch"]
    /\ UNCHANGED <<mainVars, initWg, qtasks, sem, ctxDone, vtasks, delivered,
                   subscribed, unwatched, cache, queries, feedView>>

\* LoopSpawn checking the cancellation inside the batch: a cancelled loop
\* returns instead of starting the next task
LoopSpawnUnlessCancelled(s) ==
    /\ loopPc[s] = "batch"
    /\ vi[s] <= Len(values[s])
    /\ IF ctxDone
       THEN /\ loopPc' = [loopPc EXCEPT ![s] = "exit"]
            /\ UNCHANGED <<sem, vtasks, vi>>
       ELSE /\ sem < SemCap
            /\ sem' = sem + 1
            /\ vtasks' = [vtasks EXCEPT ![s] = @ \cup
                   {[b |-> nbatch[s], i |-> vi[s], val |-> values[s][vi[s]],
                     pc |-> "start", class |-> "", old |-> None, ok |-> FALSE,
                     pend |-> <<>>, sent |-> <<>>, failed |-> FALSE]}]
            /\ vi' = [vi EXCEPT ![s] = @ + 1]
            /\ UNCHANGED loopPc
    /\ UNCHANGED <<mainVars, initWg, qtasks, ctxDone, values, nbatch,
                   wg, feedVars, cache, queries, feedView>>

\* LoopSpawn without the permit: the task is started although the pool is
\* exhausted
LoopSpawnNoPermit(s) ==
    /\ loopPc[s] = "batch"
    /\ vi[s] <= Len(values[s])
    /\ sem' = sem + 1
    /\ vtasks' = [vtasks EXCEPT ![s] = @ \cup
           {[b |-> nbatch[s], i |-> vi[s], val |-> values[s][vi[s]],
             pc |-> "start", class |-> "", old |-> None, ok |-> FALSE,
             pend |-> <<>>, sent |-> <<>>, failed |-> FALSE]}]
    /\ vi' = [vi EXCEPT ![s] = @ + 1]
    /\ UNCHANGED <<mainVars, initWg, qtasks, ctxDone, loopPc, values, nbatch,
                   wg, feedVars, cache, queries, feedView>>

\* lines 95-98: acquire a permit, start handleValue on the next value
LoopSpawn(s) ==
    /\ loopPc[s] = "batch"
    /\ vi[s] <= Len(values[s])
    /\ sem < SemCap
    /\ sem' = sem + 1
    /\ vtasks' = [vtasks EXCEPT ![s] = @ \cup
           {[b |-> nbatch[s], i |-> vi[s], val |-> values[s][vi[s]],
             pc |-> "start", class |-> "", old |-> None, ok |-> FALSE,
             pend |-> <<>>, sent |-> <<>>, failed |-> FALSE]}]
    /\ vi' = [vi EXCEPT ![s] = @ + 1]
    /\ UNCHANGED <<mainVars, initWg, qtasks, ctxDone, loopPc, values, nbatch,
                   wg, feedVars, cache, queries, feedView>>

\* LoopWait without the join: the loop goes back to the select as soon as
\* the tasks are started
LoopNoWait(s) ==
    /\ loopPc[s] = "batch"
    /\ vi[s] > Len(values[s])
    /\ loopPc' = [loopPc EXCEPT ![s] = "select"]
    /\ feedView' = [feedView EXCEPT ![s] = ViewAfter(@, values[s])]
    /\ UNCHANGED <<mainVars, initWg, qtasks, sem, ctxDone, values, vi, nbatch,
                   wg, vtasks, feedVars, cache, queries>>

\* line 99: wg.Wait(), then back to the select
LoopWait(s) ==
    /\ loopPc[s] = "batch"
    /\ vi[s] > Len(values[s])
    /\ wg[s][nbatch[s]] = 0
    /\ loopPc' = [loopPc EXCEPT ![s] = "select"]
    /\ feedView' = [feedView EXCEPT ![s] = ViewAfter(@, values[s])]
    /\ UNCHANGED <<mainVars, initWg, qtasks, sem, ctxDone, values, vi, nbatch,
                   wg, vtasks, feedVars, cache, queries>>

(***************************************************************************)
(* handleValue, lines 104-176.                                             *)
(***************************************************************************)
\* lines 110-157: decode, filter, swap the cache, classify, encode
HVClassify(s, t) ==
    /\ t \in vtasks[s]
    /\ t.pc = "start"
    /\ LET r == handleValue(t.val, s, cache[s])
       IN  /\ cache' = [cache EXCEPT ![s] = r.cache]
           /\ vtasks' = [vtasks EXCEPT ![s] = SetTask(@, t,
                  [t EXCEPT !.class = r.class, !.old = r.old, !.ok = r.ok,
                            !.pend = r.pend,
                            !.pc = IF r.pend = <<>> THEN "defer" ELSE "call"])]
    /\ UNCHANGED <<mainVars, initWg, qtasks, sem, ctxDone, loopVars, wg,
                   feedVars, queries, feedView>>

\* HVCall with a backend error that is not swallowed: it takes the process
\* down
HVCallFatal(s, t, err) ==
    /\ t \in vtasks[s]
    /\ t.pc = "call"
    /\ Invoke(Head(t.pend))
    /\ vtasks' = [vtasks EXCEPT ![s] = SetTask(@, t,
           [t EXCEPT !.sent = Append(@, Head(t.pend)),
                     !.pend = Tail(@),
                     !.failed = @ \/ err,
                     !.pc = IF Tail(t.pend) = <<>> THEN "defer" ELSE "call"])]
    /\ pcMain' = IF err THEN "Panic" ELSE pcMain
    /\ UNCHANGED <<mainIdx, objPtrs, initWg, qtasks, sem, ctxDone, loopVars, wg,
                   feedVars, cache, feedView>>

\* lines 133, 142, 158-159, 173: the next backend call returns, its error is
\* discarded; failed remembers, until the task's deferred function runs,
\* that a backend call of the task returned an error
HVCall(s, t, err) ==
    /\ t \in vtasks[s]
    /\ t.pc = "call"
    /\ Invoke(Head(t.pend))
    /\ vtasks' = [vtasks EXCEPT ![s] = SetTask(@, t,
           [t EXCEPT !.sent = Append(@, Head(t.pend)),
                     !.pend = Tail(@),
                     !.failed = @ \/ err,
                     !.pc = IF Tail(t.pend) = <<>> THEN "defer" ELSE "call"])]
    /\ UNCHANGED <<mainVars, initWg, qtasks, sem, ctxDone, loopVars, wg,
                   feedVars, cache, feedView>>

\* HVRelease without the receive from w.sem: the deferred function only
\* signals the join
HVReleaseNoPermit(s, t) ==
    /\ t \in vtasks[s]
    /\ t.pc = "defer"
    /\ vtasks' = [vtasks EXCEPT ![s] = SetTask(@, t,
           [t EXCEPT !.pc = "done", !.failed = FALSE])]
    /\ UNCHANGED <<mainVars, initWg, qtasks, sem, ctxDone, loopVars, wg, feedVars,
                   cache, queries, feedView>>

\* line 106
HVRelease(s, t) ==
    /\ t \in vtasks[s]
    /\ t.pc = "defer"
    /\ sem > 0
    /\ sem' = sem - 1
    /\ vtasks' = [vtasks EXCEPT ![s] = SetTask(@, t,
           [t EXCEPT !.pc = "done", !.failed = FALSE])]
    /\ UNCHANGED <<mainVars, initWg, qtasks, ctxDone, loopVars, wg, feedVars,
                   cache, queries, feedView>>

\* line 107
HVDone(s, t) ==
    /\ t \in vtasks[s]
    /\ t.pc = "done"
    /\ wg[s][t.b] > 0
    /\ wg' = [wg EXCEPT ![s][t.b] = @ - 1]
    /\ vtasks' = [vtasks EXCEPT ![s] = @ \ {t}]
    /\ UNCHANGED <<mainVars, initWg, qtasks, sem, ctxDone, loopVars, feedVars,
                   cache, queries, feedView>>

(***************************************************************************)
(* Specifications.                                                         *)
(***************************************************************************)
Step(Lists, Batches) ==
    \/ InitMake
    \/ \E entries \in Lists : InitList(entries)
    \/ InitSpawn
    \/ InitWait
    \/ \E t \in qtasks : HQEncode(t)
    \/ \E t \in qtasks, err \in BOOLEAN : HQCall(t, err)
    \/ \E t \in qtasks : HQRelease(t)
    \/ \E t \in qtasks : HQDone(t)
    \/ Watch
    \/ CloseCancel
    \/ CloseUnwatch
    \/ \E s \in Stores : \E w \in Batches[s] : Deliver(s, w)
    \/ \E s \in Stores : LoopStart(s)
    \/ \E s \in Stores : LoopCancel(s)
    \/ \E s \in Stores : LoopRecv(s)
    \/ \E s \in Stores : LoopSpawn(s)
    \/ \E s \in Stores : LoopWait(s)
    \/ \E s \in Stores : \E t \in vtasks[s] : HVClassify(s, t)
    \/ \E s \in Stores : \E t \in vtasks[s], err \in BOOLEAN : HVCall(s, t, err)
    \/ \E s \in Stores : \E t \in vtasks[s] : HVRelease(s, t)
    \/ \E s \in Stores : \E t \in vtasks[s] : HVDone(s, t)

\* the listing of a store at startup: three service-bearing entries (one
\* with malformed arguments), one entry without a service; or an entry that
\* does not deserialize
Listing == <<<<"k1", rawA1>>, <<"k2", rawBad>>, <<"k3", rawB>>, <<"k4", rawNS>>>>
BadListing == <<<<"k1", rawGarbage>>>>
Lists == {Listing, BadListing}

addA1 == <<EventAdd, "k1", rawA1>>
delK1 == <<EventDelete, "k1", "">>

\* Spec: both feeds deliver batches of one and two records
CoreBatches ==
    [s \in Stores |->
        {Batch(<<addA1>>), Batch(<<addA1, delK1>>), Batch(<<delK1, delK1>>)}]

Next == Step(Lists, CoreBatches)
Spec == Init /\ [][Next]_vars

\* SpecData: the feed of routes delivers every kind of record, one record a
\* batch, and batches of two records for different keys and for the same key
DataValues ==
    {<<EventAdd, "k1", r>> : r \in RawVals}
    \cup {delK1, <<EventUpdate, "k1", "">>}
DataBatches ==
    [s \in Stores |->
    IF s = "routes"
    THEN {Batch(<<v>>) : v \in DataValues}
         \cup {Batch(<<>>), BadBatch,
               Batch(<<addA1, <<EventAdd, "k2", rawB>>>>),
               Batch(<<<<EventAdd, "k1", rawB>>, delK1>>)}
    ELSE {Batch(<<addA1>>)}]

NextData == Step(Lists, DataBatches)
SpecData == Init /\ [][NextData]_vars

\* FairSpec: the scheduler runs every goroutine that can take a step, and
\* every backend call returns; a select with a ready case takes one, and a
\* Close that was called runs to its end.  The caller of Close and the
\* feeds are under no obligation
LiveBatches ==
    [s \in Stores |->
        IF s = "routes" THEN {Batch(<<addA1, delK1>>)}
        ELSE {Batch(<<<<EventAdd, "k1", rawGarbage>>>>), BadBatch}]
NextLive == Step(Lists, LiveBatches)
InitStep == InitMake \/ (\E entries \in Lists : InitList(entries)) \/ InitSpawn \/ InitWait
QueryTaskStep ==
    \E t \in qtasks :
        HQEncode(t) \/ (\E err \in BOOLEAN : HQCall(t, err)) \/ HQRelease(t) \/ HQDone(t)
LoopStep(s) == LoopStart(s) \/ LoopSpawn(s) \/ LoopWait(s)
SelectStep(s) == LoopCancel(s) \/ LoopRecv(s)
ValueTaskStep(s) ==
    \E t \in vtasks[s] :
        \/ HVClassify(s, t)
        \/ \E err \in BOOLEAN : HVCall(s, t, err)
        \/ HVRelease(s, t)
        \/ HVDone(s, t)
Fairness ==
    /\ WF_vars(InitStep)
    /\ WF_vars(QueryTaskStep)
    /\ \A s \in Stores : WF_vars(LoopStep(s))
    /\ \A s \in Stores : WF_vars(SelectStep(s))
    /\ WF_vars(CloseUnwatch)
    /\ \A s \in Stores : WF_vars(ValueTaskStep(s))
FairSpec == Init /\ [][NextLive]_vars /\ Fairness

(***************************************************************************)
(* Properties.                                                             *)
(***************************************************************************)
\* the tasks that have been started and still hold their permit
QueryHolders == {t \in qtasks : t.pc # "done"}
ValueHolders(s) == {t \in vtasks[s] : t.pc # "done"}
AllValueHolders == UNION {{<<s, t>> : t \in ValueHolders(s)} : s \in Stores}
Holders == Cardinality(QueryHolders) + Cardinality(AllValueHolders)

\* C1: bounded concurrency.  In every reachable state the handleQuery and
\* handleValue tasks that have been started and have not yet released their
\* permit, all stores together, are at most as many as w.sem has capacity.
BoundedConcurrency == Holders <= SemCap

\* the pool is exhausted by tasks of two stores while a loop waits for a
\* permit for the next record of its batch
BoundedConcurrencyWitness ==
    /\ Holders = SemCap
    /\ \A s \in Stores : ValueHolders(s) # {}
    /\ \E s \in Stores : loopPc[s] = "batch" /\ vi[s] <= Len(values[s])

\* C2: batch serialization.  Every live handleValue task of a store belongs
\* to the batch its loop decoded last, and no task of a store is left when
\* its loop is not inside a batch: the tasks of batch N+1 are started only
\* after every task of batch N has released its permit and finished.
BatchSerialization ==
    \A s \in Stores :
        /\ \A t \in vtasks[s] : t.b = nbatch[s]
        /\ loopPc[s] # "batch" => vtasks[s] = {}

\* the second batch of a store is in flight, both its tasks started
BatchSerializationWitness ==
    \E s \in Stores :
        /\ nbatch[s] = 2
        /\ Cardinality(vtasks[s]) = 2

\* C3: cancellation stops new work.  Once the context is cancelled no watch
\* loop decodes another batch.
CancellationStopsNewWork ==
    [][ctxDone => \A s \in Stores : nbatch'[s] = nbatch[s]]_vars

\* what a record and a task say, in the terms of the claims
Decoded(t) == StringToObjPtr(t.val[3], t.val[2])
IsDiffedAdd(t) ==
    /\ t.val[1] = EventAdd
    /\ ~Decoded(t).err
    /\ ServiceFilter(Decoded(t).obj)
IsDelete(t) == t.val[1] = EventDelete
Classified(t) == t.pc # "start"
Finished(t) == t.pc \in {"defer", "done"}
ArgsOK(o) == o.args # BadArgs
AddQuery(s, o) ==
    [backend |-> o.dtype, op |-> "Query",
     msg |-> [event |-> EventAdd, entity |-> <<s, o.id>>,
              service |-> o.service, args |-> o.args]]
DeleteQuery(s, o) ==
    [backend |-> o.dtype, op |-> "Query",
     msg |-> [event |-> EventDelete, entity |-> <<s, o.id>>,
              service |-> o.service, args |-> o.args]]
UpdateCall(o, n) ==
    [backend |-> n.dtype, op |-> "Update",
     msg |-> [event |-> EventUpdate, service |-> o.service,
              args |-> o.args, newArgs |-> n.args]]
IsPrefix(p, q) ==
    /\ Len(p) <= Len(q)
    /\ \A i \in 1..Len(p) : p[i] = q[i]
\* the key of the task's record is touched by no other record of the batch
Solo(s, t) == Cardinality(Touching(values[s], t.val[2])) = 1

\* C4: classification completeness.  A finished handleValue task of an
\* add-kind record that decoded to a service-bearing object, the encoding
\* having succeeded, has dispatched exactly: one add-Query for the new
\* object when Store returned no previous object; one Update (old
\* arguments, new arguments) when a previous object exists and ServiceUpdate
\* holds; one delete-Query for the old and one add-Query for the new object
\* when ServiceUpdate does not hold and ServiceReplace does; nothing when
\* neither holds.
ClassificationComplete ==
    \A s \in Stores : \A t \in vtasks[s] :
        (Finished(t) /\ IsDiffedAdd(t)) =>
            LET n == Decoded(t).obj
                o == t.old
            IN  IF ~t.ok
                THEN ArgsOK(n) => t.sent = <<AddQuery(s, n)>>
                ELSE IF ServiceUpdate(o, n)
                THEN (ArgsOK(o) /\ ArgsOK(n)) => t.sent = <<UpdateCall(o, n)>>
                ELSE IF ServiceReplace(o, n)
                THEN (ArgsOK(o) /\ ArgsOK(n)) =>
                        t.sent = <<DeleteQuery(s, o), AddQuery(s, n)>>
                ELSE t.sent = <<>>

\* a finished task that met a previous object with another discovery target
\* and made its two calls
ClassificationCompleteWitness ==
    \E s \in Stores : \E t \in vtasks[s] :
        /\ Finished(t) /\ IsDiffedAdd(t) /\ t.ok
        /\ ServiceReplace(t.old, Decoded(t).obj)
        /\ Len(t.sent) = 2

\* C5: snapshot monotonicity.  Of the add-kind records that reach the diff
\* step (they decode to a service-bearing object), handed to it one after
\* the other, each is given by Store the object of the record diffed before
\* it for that key (none for the first, none after a delete), and the cache
\* then holds the object decoded from it; between batches the cache holds,
\* key by key, the object of the last record.
SnapshotMonotone ==
    \A s \in Stores :
        /\ \A t \in vtasks[s] :
            (Classified(t) /\ IsDiffedAdd(t) /\ Solo(s, t)
                /\ feedView[s][t.val[2]] # Racy) =>
                /\ t.old = feedView[s][t.val[2]]
                /\ t.ok = (feedView[s][t.val[2]] # None)
                /\ cache[s][t.val[2]] = Decoded(t).obj
        /\ loopPc[s] # "batch" =>
            \A k \in Keys : feedView[s][k] # Racy => cache[s][k] = feedView[s][k]

\* the second add-kind record of a key has been diffed: Store returned the
\* object of the first, the cache holds the object of the second
SnapshotMonotoneWitness ==
    \E s \in Stores : \E t \in vtasks[s] :
        /\ Classified(t) /\ IsDiffedAdd(t) /\ Solo(s, t)
        /\ t.ok
        /\ t.old = feedView[s][t.val[2]]
        /\ t.old # Decoded(t).obj
        /\ cache[s][t.val[2]] = Decoded(t).obj

\* number of add-Queries and of delete-Queries dispatched for an entity
AddQueries(e) == Queries("dns", EventAdd, e) + Queries("nacos", EventAdd, e)
DeleteQueries(e) == Queries("dns", EventDelete, e) + Queries("nacos", EventDelete, e)

\* C6: removal is propagated.  When the task of a delete-kind record has
\* finished, every add-Query dispatched for the entity of its key (by Init
\* or by an add-kind record) has been followed by a delete-Query.
RemovalPropagated ==
    \A s \in Stores : \A t \in vtasks[s] :
        (Finished(t) /\ IsDelete(t) /\ Solo(s, t)) =>
            AddQueries(EncodeEntityID(s, t.val[2]))
                = DeleteQueries(EncodeEntityID(s, t.val[2]))

\* C7: idempotent delete.  The step of a delete-kind record leaves its key
\* without an entry; when the key had no entry, it leaves the cache as it
\* was and the task makes no backend call.  So of the delete-kind records of
\* one batch for one key at most one finds an entry, and a task that found
\* none has dispatched nothing.
IdempotentDeleteState ==
    \A s \in Stores : \A t \in vtasks[s] :
        (IsDelete(t) /\ Classified(t)) =>
            /\ ~t.ok => t.pend = <<>> /\ t.sent = <<>>
            /\ \A u \in vtasks[s] :
                (IsDelete(u) /\ Classified(u) /\ u # t /\ u.b = t.b
                    /\ u.val[2] = t.val[2]) => ~(t.ok /\ u.ok)
IdempotentDelete ==
    [][/\ \A s \in Stores : \A t \in vtasks[s] : \A u \in vtasks'[s] :
            (t.pc = "start" /\ IsDelete(t) /\ u.b = t.b /\ u.i = t.i
                /\ u.pc # "start") =>
                /\ cache'[s][t.val[2]] = None
                /\ cache[s][t.val[2]] = None =>
                    cache' = cache /\ queries' = queries /\ u.pc = "defer"
       /\ IdempotentDeleteState']_vars

\* two delete-kind records of one batch for a cached key: one task found
\* the entry and has its delete-Query to make, the other found none
IdempotentDeleteWitness ==
    \E s \in Stores : \E t, u \in vtasks[s] :
        /\ IsDelete(t) /\ IsDelete(u) /\ u.val[2] = t.val[2]
        /\ Classified(t) /\ Classified(u)
        /\ t.ok /\ Len(t.pend) + Len(t.sent) = 1
        /\ ~u.ok /\ u.pend = <<>> /\ u.sent = <<>>

\* C8: replace ordering and routing.  At every moment the calls made by a
\* task whose record replaces the service of the previous object are a
\* prefix of: the delete-Query of the old object on the backend of the old
\* object's discovery type, then the add-Query of the new object on the
\* backend of the new object's discovery type.
ReplaceOrdered ==
    \A s \in Stores : \A t \in vtasks[s] :
        (Classified(t) /\ IsDiffedAdd(t) /\ t.ok
            /\ ~ServiceUpdate(t.old, Decoded(t).obj)
            /\ ServiceReplace(t.old, Decoded(t).obj)) =>
            IsPrefix(t.sent,
                     <<DeleteQuery(s, t.old), AddQuery(s, Decoded(t).obj)>>)

\* the delete-Query has been invoked on the old backend and the add-Query
\* for another backend is still to be invoked
ReplaceOrderedWitness ==
    \E s \in Stores : \E t \in vtasks[s] :
        /\ IsDiffedAdd(t) /\ t.ok /\ t.pc = "call"
        /\ t.sent = <<DeleteQuery(s, t.old)>>
        /\ t.pend = <<AddQuery(s, Decoded(t).obj)>>
        /\ t.old.dtype # Decoded(t).obj.dtype

\* the objects Init hands to handleQuery for every store
Listed == List(Listing).objs
Encodable == {i \in 1..Len(Listed) : ArgsOK(Listed[i])}

\* C9: Init is synchronous and complete.  No handleQuery task of a store is
\* alive when Init lists the next store or returns; when Init has returned
\* no permit is held and every listed service-bearing entity of every store
\* has had exactly one add-Query on the backend of its discovery type,
\* unless its encoding failed, and nothing else has been dispatched; and
\* Init terminates (it returns, or it panics on a failed listing).
InitReturned ==
    pcMain = "Watch" =>
        /\ qtasks = {}
        /\ sem = 0
        /\ \A s \in Stores : \A i \in 1..Len(Listed) :
              Queries(Listed[i].dtype, EventAdd, EncodeEntityID(s, Listed[i].id))
                  = IF i \in Encodable THEN 1 ELSE 0
        /\ BagCardinality(queries) = Cardinality(Stores) * Cardinality(Encodable)
InitStoreByStore ==
    /\ pcMain = "Init" => qtasks = {}
    /\ pcMain = "InitSpawn" => \A t \in qtasks : t.store = GetStores[mainIdx]
InitSynchronous ==
    /\ [](InitReturned /\ InitStoreByStore)
    /\ <>(pcMain \notin {"Start", "Init", "InitSpawn"})

\* Init has returned after both stores were listed: four add-Queries
InitSynchronousWitness ==
    /\ pcMain = "Watch"
    /\ BagCardinality(queries) = 4
    /\ Queries("nacos", EventAdd, EncodeEntityID("upstreams", "k3")) = 1

\* C10: in-flight batches survive cancellation.  A loop leaves a batch,
\* cancelled or not, only when it has started a task for every record and
\* every task has run to its end (it classified its record, made its calls,
\* released its permit and signalled the join); a loop that is inside a
\* batch when the context is cancelled does get there.  Close is never held
\* up by a task.
CloseNeverWaits ==
    /\ pcMain = "Serve" => ENABLED CloseCancel
    /\ pcMain = "Close" => ENABLED CloseUnwatch
BatchLeftComplete ==
    \A s \in Stores :
        (loopPc[s] = "batch" /\ loopPc'[s] # "batch") =>
            /\ vi[s] > Len(values[s])
            /\ wg[s][nbatch[s]] = 0
            /\ vtasks[s] = {}
InFlightBatchCompletes ==
    /\ []CloseNeverWaits
    /\ [][BatchLeftComplete]_vars
    /\ \A s \in Stores : (ctxDone /\ loopPc[s] = "batch") ~> (loopPc[s] # "batch")

\* Close has returned while a loop is still starting the tasks of its batch
InFlightBatchCompletesWitness ==
    /\ pcMain = "Closed"
    /\ \E s \in Stores :
          /\ loopPc[s] = "batch"
          /\ vi[s] <= Len(values[s])
          /\ wg[s][nbatch[s]] = 2

\* a handleValue task that has not yet run to the end of its body
Running(t) == t.pc \in {"start", "call"}

\* C11: per-key linearizable diffing.  For one store no two handleValue
\* tasks for the same key are running at the same time, and a task accesses
\* the snapshot cache only when every record the feed delivered before its
\* own for that key has been classified.
PerKeyLinearizable ==
    \A s \in Stores : \A t, u \in vtasks[s] :
        (t # u /\ t.val[2] = u.val[2]) =>
            /\ ~(Running(t) /\ Running(u))
            /\ (t.i < u.i /\ Classified(u)) => Classified(t)

\* C13: a bad batch is skipped whole.  The step that receives a batch whose
\* decoding fails starts no task, acquires no permit, leaves the snapshot
\* caches, the backends and the batch counters as they were, and leaves
\* the loop at its select.
TakesBadBatch(s) ==
    /\ loopPc[s] = "select"
    /\ feed[s] # <<>>
    /\ Decode(Head(feed[s])).err
    /\ feed'[s] # feed[s]
BadBatchSkipped ==
    [][\A s \in Stores :
          TakesBadBatch(s) =>
              /\ loopPc'[s] = "select"
              /\ UNCHANGED <<vtasks, sem, cache, queries, nbatch, values, vi, wg>>]_vars

\* a batch was delivered and consumed, and no loop has decoded a batch: the
\* loop is back at its select
BadBatchSkippedWitness ==
    /\ delivered = 1
    /\ \A s \in Stores : feed[s] = <<>> /\ nbatch[s] = 0
    /\ \E s \in Stores : loopPc[s] = "select"
    /\ \A s \in Stores : vtasks[s] = {} /\ cache[s] = [k \in Keys |-> None]

\* add-Queries dispatched for the entities of a store
StoreAddQueries(s) ==
    LET Adds(k) == AddQueries(EncodeEntityID(s, k))
        Sum[K \in SUBSET Keys] ==
            IF K = {} THEN 0
            ELSE LET k == CHOOSE x \in K : TRUE IN Adds(k) + Sum[K \ {k}]
    IN  Sum[Keys]

\* C14: a listing failure is fatal.  Init goes on to start tasks for a
\* store only with that store's listing; once it has panicked it stays
\* panicked, Watch is never reached, no add-Query has been or will be
\* dispatched for the store whose listing failed nor for a store after it,
\* and the add-Queries of the stores before it stay dispatched.
ListFailureState ==
    pcMain = "Panic" =>
        /\ qtasks = {}
        /\ \A s \in Stores : loopPc[s] = "none"
        /\ \A i \in 1..Len(GetStores) :
              StoreAddQueries(GetStores[i])
                  = IF i < mainIdx THEN Cardinality(Encodable) ELSE 0
ListFailureStep ==
    /\ (pcMain = "Init" /\ pcMain' = "InitSpawn") => objPtrs' = Listed
    /\ pcMain = "Panic" => (pcMain' = "Panic" /\ queries' = queries)
ListFailureFatal ==
    [][ListFailureStep /\ ListFailureState']_vars

\* the listing of the second store failed after the first store was
\* reconciled
ListFailureFatalWitness ==
    /\ pcMain = "Panic"
    /\ mainIdx = 2
    /\ StoreAddQueries(GetStores[1]) = 2
    /\ StoreAddQueries(GetStores[2]) = 0

\* C16: stalls do not deadlock other stores.  A loop that needs a permit
\* for the next record of its batch is never facing a pool whose permits
\* are all held by tasks of other stores inside their backend calls: were
\* those calls to hang, the loop would wait for its permit forever.
InBackendCall(s) == {t \in vtasks[s] : t.pc = "call"}
WaitsForPermit(u) ==
    /\ loopPc[u] = "batch"
    /\ vi[u] <= Len(values[u])
    /\ sem = SemCap
StallsLeaveOthersRunning ==
    \A s, u \in Stores :
        (s # u /\ WaitsForPermit(u)) => Cardinality(InBackendCall(s)) < SemCap

\* C17: non-service-bearing records are dropped without effect.  The step
\* of an add-kind record whose value does not decode, or decodes to an
\* object without service information, leaves every snapshot cache and the
\* backends as they were and ends the task's body with nothing to dispatch;
\* the task never makes a backend call.
IsDroppedAdd(t) == t.val[1] = EventAdd /\ ~IsDiffedAdd(t)
NonServiceDropped ==
    [][\A s \in Stores :
          /\ \A t \in vtasks[s] : \A u \in vtasks'[s] :
                (t.pc = "start" /\ IsDroppedAdd(t) /\ u.b = t.b /\ u.i = t.i
                    /\ u.pc # "start") =>
                    /\ cache' = cache
                    /\ queries' = queries
                    /\ u.pc = "defer"
          /\ \A u \in vtasks'[s] :
                IsDroppedAdd(u) => u.pend = <<>> /\ u.sent = <<>>]_vars

\* a record without service information was dropped while the key holds the
\* object of an earlier record
NonServiceDroppedWitness ==
    \E s \in Stores : \E t \in vtasks[s] :
        /\ IsDroppedAdd(t) /\ Classified(t)
        /\ ~Decoded(t).err
        /\ cache[s][t.val[2]] # None
        /\ ServiceFilter(cache[s][t.val[2]])

\* the message a record's classification needs does not encode
EncodeFails(t) ==
    IF IsDelete(t) THEN t.ok /\ ~ArgsOK(t.old)
    ELSE /\ IsDiffedAdd(t)
         /\ LET n == Decoded(t).obj
            IN  IF ~t.ok THEN ~ArgsOK(n)
                ELSE /\ ServiceUpdate(t.old, n) \/ ServiceReplace(t.old, n)
                     /\ ~ArgsOK(t.old) \/ ~ArgsOK(n)

\* C18: the cache is not rolled back on an encode failure.  A record whose
\* message does not encode makes no backend call, and the cache holds the
\* object decoded from it (add-kind) or no entry (delete-kind); every
\* record is diffed against what the record before it for the key left,
\* whether or not that record's message encoded.
CacheNotRolledBack ==
    \A s \in Stores : \A t \in vtasks[s] :
        (Classified(t) /\ Solo(s, t) /\ feedView[s][t.val[2]] # Racy
            /\ (IsDiffedAdd(t) \/ IsDelete(t))) =>
            /\ t.old = feedView[s][t.val[2]]
            /\ EncodeFails(t) =>
                  /\ t.pend = <<>> /\ t.sent = <<>>
                  /\ cache[s][t.val[2]]
                        = IF IsDelete(t) THEN None ELSE Decoded(t).obj

\* the delete of an entry whose add-Query did not encode: the entry had
\* been cached, it is taken, and its delete-Query does not encode either
CacheNotRolledBackWitness ==
    \E s \in Stores : \E t \in vtasks[s] :
        /\ IsDelete(t) /\ Classified(t) /\ Solo(s, t)
        /\ t.ok /\ ~ArgsOK(t.old)
        /\ Finished(t) /\ t.sent = <<>>
        /\ cache[s][t.val[2]] = None

\* C19: Replace is all-or-nothing with respect to encoding.  A task whose
\* record replaces the service of the previous object has, from its
\* classification on, either both Queries to its name (made or still to
\* make), the delete-Query first, or none at all when one of the two does
\* not encode.
IsReplace(t) ==
    /\ IsDiffedAdd(t) /\ t.ok
    /\ ~ServiceUpdate(t.old, Decoded(t).obj)
    /\ ServiceReplace(t.old, Decoded(t).obj)
ReplaceAllOrNothing ==
    \A s \in Stores : \A t \in vtasks[s] :
        (Classified(t) /\ IsReplace(t)) =>
            IF ArgsOK(t.old) /\ ArgsOK(Decoded(t).obj)
            THEN t.sent \o t.pend
                    = <<DeleteQuery(s, t.old), AddQuery(s, Decoded(t).obj)>>
            ELSE t.sent = <<>> /\ t.pend = <<>>

\* a Replace whose delete-Query encodes and whose add-Query does not
ReplaceAllOrNothingWitness ==
    \E s \in Stores : \E t \in vtasks[s] :
        /\ Finished(t) /\ IsReplace(t)
        /\ ArgsOK(t.old) /\ ~ArgsOK(Decoded(t).obj)
        /\ t.sent = <<>>

\* C20: permit conservation.  The permits held are as many as the tasks
\* that were started and have not yet released theirs; the counter of a
\* batch's join is the number of its records whose task has not signalled
\* it, a task signalling only after it released its permit; and no permit
\* is held when neither Init nor a watch loop is inside a batch.
PermitConservation ==
    /\ sem = Holders
    /\ pcMain = "InitSpawn" =>
          initWg[GetStores[mainIdx]] = Cardinality(qtasks) + Len(objPtrs)
    /\ \A s \in Stores :
          loopPc[s] = "batch" =>
              wg[s][nbatch[s]] + (vi[s] - 1)
                  = Cardinality(vtasks[s]) + Len(values[s])
    /\ (pcMain # "InitSpawn" /\ \A s \in Stores : loopPc[s] # "batch") => sem = 0

\* a record of an unknown event kind: its task has released its permit and
\* not yet signalled the join
PermitConservationWitness ==
    \E s \in Stores : \E t \in vtasks[s] :
        /\ t.val[1] = EventUpdate
        /\ t.pc = "done"
        /\ sem = 0
        /\ wg[s][t.b] = 1

\* a task that met an error: its value did not decode, its message did not
\* encode, or a backend call of it returned an error
ValueErred(t) == t.class \in {"decodeError", "encodeError"} \/ t.failed
QueryErred(t) == (t.pc # "start" /\ ~ArgsOK(t.obj)) \/ t.failed

\* C12: error isolation.  A task that met an error still releases its
\* permit and signals the join, its batch is left only when every record of
\* it has had its task and every task has finished, and the loop (or Init)
\* goes on; a watch loop ends only by cancellation and Init aborts only on a
\* failed listing.
ErrorIsolationStep ==
    /\ \A s \in Stores :
          /\ loopPc'[s] = "exit" => (loopPc[s] = "exit" \/ ctxDone)
          /\ (loopPc[s] = "batch" /\ loopPc'[s] # "batch") =>
                /\ loopPc'[s] = "select"
                /\ vi[s] > Len(values[s])
                /\ vtasks[s] = {}
    /\ pcMain' = "Panic" => pcMain \in {"Init", "Panic"}
    /\ (pcMain = "InitSpawn" /\ pcMain' # "InitSpawn") =>
          /\ pcMain' \in {"Init", "Watch"}
          /\ objPtrs = <<>>
          /\ qtasks = {}
ErrorIsolation ==
    /\ [][ErrorIsolationStep]_vars
    /\ \A s \in Stores :
          (\E t \in vtasks[s] : ValueErred(t)) ~> (loopPc[s] = "select")
    /\ (\E t \in qtasks : QueryErred(t)) ~> (pcMain # "InitSpawn")

\* the backend call of a task returned an error and the task is about to
\* release its permit, while the task of the sibling record has found its
\* entry and is making its own call
ErrorIsolationWitness ==
    \E s \in Stores : \E t, u \in vtasks[s] :
        /\ t.failed /\ t.pc = "defer"
        /\ u.b = t.b /\ u.i # t.i
        /\ u.pc = "call"

\* C15: shutdown liveness.  Once the context is cancelled Close returns and
\* the watch loop of every store exits; Close calls Unwatch on every store
\* exactly once.
UnwatchedOnce ==
    \A s \in Stores :
        /\ unwatched[s] <= 1
        /\ pcMain = "Closed" => unwatched[s] = 1
ShutdownLiveness ==
    /\ []UnwatchedOnce
    /\ ctxDone ~> (pcMain = "Closed" /\ \A s \in Stores : loopPc[s] = "exit")

\* Close has returned and every loop has exited, one of them after a batch
ShutdownLivenessWitness ==
    /\ pcMain = "Closed"
    /\ \A s \in Stores : loopPc[s] = "exit" /\ unwatched[s] = 1
    /\ \E s \in Stores : nbatch[s] = 1

=============================================================================
